---- MODULE Spec2Model ----
(***************************************************************************)
(* The loader graph of au-blog-rag (src/src/loader_graph/graph.py):        *)
(*   __start__ -> extract_sitemap_entries -> filter_sitemap_entries        *)
(*             -> create_documents -> check_next_batch -> ... -> __end__   *)
(* run against one vector store, several invocations in a row; and the     *)
(* message handler of the Slack bot (src/src/slack_integration/slack_bot.py). *)
(***************************************************************************)
EXTENDS Integers, Sequences, FiniteSets

\* ---------------------------------------------------------------- bounds
UrlList == <<"a", "b", "c">>
Urls == {UrlList[i] : i \in 1..Len(UrlList)}
ShortUrls == {"a", "b"}
MaxLastmod == 2
MaxChunks == 2
MaxBatchSize == 2

VARIABLES
    pc,              \* node about to run: idle, extract, filter, create, check, end, error
    error,           \* exception that ended the invocation ("none" while it runs)
    sitemap,         \* LoaderInputState.sitemap: the raw sitemap of this invocation
    has_config,      \* whether a RunnableConfig was passed to the invocation
    batch_size,      \* configuration.load_documents_batch_size
    sitemap_entries, \* LoaderState.sitemap_entries (the pending queue)
    documents_count, \* LoaderState.documents_count
    store,           \* the vector store: one record per stored chunk
    store0,          \* the store as this invocation found it
    metadata_list,   \* filter_sitemap_entries: the records read from the store
    delete_ids,      \* filter_sitemap_entries: the ids passed to delete_by_ids
    to_index,        \* filter_sitemap_entries: the returned new_entries
    processed,       \* create_documents: the batches loaded so far in this invocation
    fetch,           \* filter_sitemap_entries: how similarity_search ended
    outcome,         \* create_documents: how load, split and add of the last batch ended
    same_after_ok,   \* this invocation repeats the sitemap of one that reached __end__
    prior,           \* whether it repeats one that failed in a batch, and that one's to_index
    io,              \* the calls to the sitemap, the store and the loader, in order
    total_count,     \* vsm.total_count of the manager constructed last
    slack_pc,        \* handle_direct_message: the statement about to run
    event,           \* body["event"] of the message the handler is working on
    calls            \* what the handler has called for this event, in order

loader_vars == <<pc, error, sitemap, has_config, batch_size, sitemap_entries,
                 documents_count, store, store0, metadata_list, delete_ids,
                 to_index, processed, fetch, outcome, same_after_ok, prior, io,
                 total_count>>

slack_vars == <<slack_pc, event, calls>>

vars == <<loader_vars, slack_vars>>

Min(x, y) == IF x <= y THEN x ELSE y

\* ------------------------------------------------------------ data model
\* SitemapEntry{url, lastmod}; lastmod is a datetime, here a day number.
SitemapEntries == [url : Urls, lastmod : 1..MaxLastmod]

\* The sitemaps given to the graph: every sequence of entries over ShortUrls
\* that is no longer than ShortUrls has urls (a url may repeat), and the
\* sitemap that lists every url of Urls once, all with lastmod 1.
ShortSitemaps ==
    UNION {[1..n -> [url : ShortUrls, lastmod : 1..MaxLastmod]] :
             n \in 0..Cardinality(ShortUrls)}

FullSitemaps == {[i \in 1..Len(UrlList) |-> [url |-> UrlList[i], lastmod |-> 1]]}

RawSitemaps == ShortSitemaps \cup FullSitemaps

\* The metadata of a stored chunk keeps lastmod as an ISO-8601 string.
IsoFormat(lastmod) == <<"iso", lastmod>>

\* datetime.fromisoformat(metadata["lastmod"])
FromIsoFormat(text) == text[2]

\* Sitemap(sitemap).load(): unique by url, the last occurrence wins.
RECURSIVE SitemapLoad(_)
SitemapLoad(raw) ==
    IF raw = <<>> THEN <<>>
    ELSE LET h == Head(raw)
             t == Tail(raw)
         IN  IF \E i \in 1..Len(t) : t[i].url = h.url
             THEN SitemapLoad(t)
             ELSE <<h>> \o SitemapLoad(t)

\* Mutant: the node returns the sitemap as given, without load().
ExtractedEntries_Unloaded(raw) == raw

\* extract_sitemap_entries returns Sitemap(sitemap=state.sitemap).load()
ExtractedEntries(raw) == SitemapLoad(raw)

\* ------------------------------------------------- vector store adapter
\* VectorStoreManager.total_count as read when the manager is constructed.
TotalCount(st) == Cardinality(st)

\* vector_store.similarity_search(query, k): the k nearest records, all of
\* them when the store holds no more than k.
SimilaritySearch(st, k) ==
    {res \in SUBSET st : Cardinality(res) = Min(k, Cardinality(st))}

\* vsm.delete_by_ids(ids); deleting an absent id is not an error.
DeleteByIds(st, ids) == {r \in st : r.id \notin ids}

\* vector_store.add_documents(documents)
AddDocuments(st, docs) == st \cup docs

\* -------------------------------------------------- filter_sitemap_entries
\* Mutant: the search always asks for one record.
SearchK_One(count) == 1

\* k = 1 if vsm.total_count == 0 else vsm.total_count
SearchK(count) == IF count = 0 THEN 1 ELSE count

\* db_entries = {(source, fromisoformat(lastmod)) for metadata in metadata_list}
DbEntries(metadata) == {<<m.source, FromIsoFormat(m.lastmod)>> : m \in metadata}

NoMatch == <<"", 0>>

\* The inner loop stops at the first pair of db_entries with the entry's url.
\* db_entries is a set, so which pair comes first is any of the matching ones;
\* the order is the same for every entry of one call.
FirstMatches(db_entries) ==
    {f \in [Urls -> db_entries \cup {NoMatch}] :
        \A u \in Urls :
            IF \E d \in db_entries : d[1] = u
            THEN f[u] \in db_entries /\ f[u][1] = u
            ELSE f[u] = NoMatch}

\* Mutant: a url that is in the index is never taken as updated.
VectorFlag_NeverStale(entry, first) ==
    IF first[entry.url] = NoMatch THEN 0 ELSE 1

\* Mutant: < in place of <=, so an equal lastmod counts as updated.
VectorFlag_Strict(entry, first) ==
    LET d == first[entry.url]
    IN  IF d = NoMatch THEN 0
        ELSE IF entry.lastmod < d[2] THEN 1
        ELSE 2

\* 0: new, 1: exists (no update), 2: exists but updated
VectorFlag(entry, first) ==
    LET d == first[entry.url]
    IN  IF d = NoMatch THEN 0
        ELSE IF entry.lastmod <= d[2] THEN 1
        ELSE 2

\* Mutant: only updated entries are returned, new ones are dropped.
RECURSIVE NewEntries_OnlyUpdated(_, _)
NewEntries_OnlyUpdated(entries, first) ==
    IF entries = <<>> THEN <<>>
    ELSE LET e == Head(entries)
             d == first[e.url]
         IN  (IF d # NoMatch /\ e.lastmod > d[2] THEN <<e>> ELSE <<>>)
                 \o NewEntries_OnlyUpdated(Tail(entries), first)

\* Mutant: no entry is skipped, every sitemap entry is returned.
NewEntries_All(entries, first) == entries

\* new_entries, in the order of sitemap_entries
RECURSIVE NewEntries(_, _)
NewEntries(entries, first) ==
    IF entries = <<>> THEN <<>>
    ELSE LET e == Head(entries)
         IN  (IF VectorFlag(e, first) \in {0, 2} THEN <<e>> ELSE <<>>)
                 \o NewEntries(Tail(entries), first)

\* Mutant: the ids of an entry's records are collected whatever its flag.
DeleteIds_AnyFlag(entries, first, metadata) ==
    {m.id : m \in {x \in metadata :
                     \E i \in 1..Len(entries) : x.source = entries[i].url}}

\* delete_ids: every id of metadata_list whose source is an updated entry's url
DeleteIds(entries, first, metadata) ==
    {m.id : m \in {x \in metadata :
                     \E i \in 1..Len(entries) :
                         /\ VectorFlag(entries[i], first) = 2
                         /\ x.source = entries[i].url}}

\* Mutant: the failure of similarity_search is swallowed.
RetrieveRaises_Swallow(fetch_ok) == FALSE

\* The try/except around similarity_search re-raises as RuntimeError.
RetrieveRaises(fetch_ok) == ~fetch_ok

\* Mutant: the node returns without deleting.
StoreAfterFilter_Skip(st, ids) == st

\* vsm.delete_by_ids(delete_ids) runs before the node returns.
StoreAfterFilter(st, ids) == DeleteByIds(st, ids)

\* -------------------------------------------------------- create_documents
\* Mutant: the node does not return early on an empty queue.
NothingToProcess_Never(entries) == FALSE

\* if not state.sitemap_entries: return {"documents_count": 0}
NothingToProcess(entries) == entries = <<>>

\* Mutant: the batch is cut from the end of the queue.
Batch_Last(entries, size) ==
    SubSeq(entries, Len(entries) - Min(size, Len(entries)) + 1, Len(entries))

\* state.sitemap_entries[:batch_size]
Batch(entries, size) == SubSeq(entries, 1, Min(size, Len(entries)))

\* Mutant: the node returns the queue as it got it.
Rest_Whole(entries, size) == entries

\* Mutant: the slice starts one entry too far, state.sitemap_entries[batch_size + 1:].
Rest_OffByOne(entries, size) ==
    SubSeq(entries, Min(size + 1, Len(entries)) + 1, Len(entries))

\* state.sitemap_entries[batch_size:]
Rest(entries, size) == SubSeq(entries, Min(size, Len(entries)) + 1, Len(entries))

RECURSIVE SumTo(_, _)
SumTo(counts, i) == IF i = 0 THEN 0 ELSE counts[i] + SumTo(counts, i - 1)

\* The ids the store gives to added chunks are fresh: the n-th of them is the
\* n-th id that is neither in the store nor among the ids this invocation read.
RECURSIVE NthFresh(_, _, _)
NthFresh(used, n, from) ==
    IF from \in used THEN NthFresh(used, n, from + 1)
    ELSE IF n = 1 THEN from
    ELSE NthFresh(used, n - 1, from + 1)

\* loader.load() and text_splitter.split_documents(): counts[i] chunks for the
\* i-th entry of the batch, each with the entry's url and lastmod as metadata.
ProcessedDocuments(batch, counts, used) ==
    UNION {{[id |-> NthFresh(used, SumTo(counts, i - 1) + j, 1),
             source |-> batch[i].url,
             lastmod |-> IsoFormat(batch[i].lastmod)] : j \in 1..counts[i]}
           : i \in 1..Len(batch)}

\* Mutant: the count of the batch replaces the running count.
DocumentsCount_Overwrite(count, added) == added

\* state.documents_count + len(processed_documents)
DocumentsCount(count, added) == count + added

\* Mutant: an exception in the batch is swallowed and the node carries on.
CreateRaises_Swallow(result) == FALSE

\* An exception of loader.load, split_documents or add_documents leaves the node.
CreateRaises(result) == result # "ok"

\* -------------------------------------------------------- check_next_batch
\* Mutant: with entries left the graph goes back to filter_sitemap_entries.
NextBatchTarget_Refilter(entries) == IF entries = <<>> THEN "end" ELSE "filter"

\* "__end__" if not state.sitemap_entries else "create_documents"
NextBatchTarget(entries) == IF entries = <<>> THEN "end" ELSE "create"

\* vsm.total_count += len(processed_documents)
TotalCountAfterAdd(count, added) == count + added

\* ------------------------------------------------------------- slack bot
\* The message events Slack delivers: channel_type and bot_id may be missing
\* ("none"), the text may be empty or blank.
ChannelTypes == {"im", "group", "mpim", "channel", "none"}
BotIds == {"none", "B1"}
Texts == {"", " ", "hi", " hi "}
Events == [channel_type : ChannelTypes, bot_id : BotIds, text : Texts]
NoEvent == [channel_type |-> "none", bot_id |-> "none", text |-> ""]

\* str.strip()
Strip(text) ==
    CASE text = " " -> ""
      [] text = " hi " -> "hi"
      [] OTHER -> text

\* Mutant: the empty text is checked first, before channel_type and bot_id.
IsValidEvent_TextFirst(e) ==
    IF Strip(e.text) = "" THEN "ValueError"
    ELSE IF e.channel_type \notin {"im", "group"} THEN "ignored"
    ELSE IF e.bot_id # "none" THEN "ignored"
    ELSE "valid"

\* _is_valid_event: "ignored" for return False, "valid" for return True,
\* "ValueError" for the raise on an empty text.
IsValidEvent(e) ==
    IF e.channel_type \notin {"im", "group"} THEN "ignored"
    ELSE IF e.bot_id # "none" THEN "ignored"
    ELSE IF Strip(e.text) = "" THEN "ValueError"
    ELSE "valid"

\* Mutant: the handler starts with the validation and never acknowledges.
HandlerEntry_NoAck == "validate"

\* handle_direct_message begins with ack().
HandlerEntry == "ack"

\* ------------------------------------------------------------------ graph
\* This invocation does not repeat one that failed in a batch.
NoPrior == [aborted |-> FALSE, to_index |-> <<>>]

Init ==
    /\ pc = "idle"
    /\ error = "none"
    /\ sitemap = <<>>
    /\ has_config = TRUE
    /\ batch_size = 1
    /\ sitemap_entries = <<>>
    /\ documents_count = 0
    /\ store = {}
    /\ store0 = {}
    /\ metadata_list = {}
    /\ delete_ids = {}
    /\ to_index = <<>>
    /\ processed = <<>>
    /\ fetch = "none"
    /\ outcome = "none"
    /\ same_after_ok = FALSE
    /\ prior = NoPrior
    /\ io = <<>>
    /\ total_count = 0
    /\ slack_pc = "wait"
    /\ event = NoEvent
    /\ calls = <<>>

\* Ids are opaque names: no invocation reads an id it did not get from the
\* store itself. Between invocations the records are renamed 1..n, url by url,
\* so that stores differing only in the names of their ids are one state.
UrlIndex(url) == CHOOSE i \in 1..Len(UrlList) : UrlList[i] = url

Renamed(st) ==
    {[r EXCEPT !.id =
          Cardinality({x \in st :
              \/ UrlIndex(x.source) < UrlIndex(r.source)
              \/ x.source = r.source /\ x.id <= r.id})] : r \in st}

\* The config argument of an invocation: none, or one whose
\* load_documents_batch_size is a positive integer.
Configs ==
    {[given |-> FALSE, size |-> 1]}
        \cup {[given |-> TRUE, size |-> n] : n \in 1..MaxBatchSize}

\* A fresh LoaderState for an invocation with this input and configuration.
Start(raw, cfg, size) ==
    /\ sitemap' = raw
    /\ has_config' = cfg
    /\ batch_size' = size
    /\ pc' = "extract"
    /\ error' = "none"
    /\ sitemap_entries' = <<>>
    /\ documents_count' = 0
    /\ metadata_list' = {}
    /\ delete_ids' = {}
    /\ to_index' = <<>>
    /\ processed' = <<>>
    /\ fetch' = "none"
    /\ outcome' = "none"
    /\ io' = <<>>
    /\ total_count' = 0

\* graph.ainvoke(input, config) with a new sitemap
Invoke ==
    /\ pc = "idle"
    /\ UNCHANGED slack_vars
    /\ \E raw \in RawSitemaps, conf \in Configs : Start(raw, conf.given, conf.size)
    /\ same_after_ok' = FALSE
    /\ prior' = NoPrior
    /\ store0' = store
    /\ UNCHANGED store

\* The operator invokes the graph again with the sitemap of the invocation that
\* just ended or failed.
Reinvoke ==
    /\ pc \in {"end", "error"}
    /\ UNCHANGED slack_vars
    /\ \E conf \in Configs : Start(sitemap, conf.given, conf.size)
    /\ same_after_ok' = (pc = "end")
    /\ prior' = IF pc = "error" /\ outcome \in {"LoadError", "AddError"}
                THEN [aborted |-> TRUE, to_index |-> to_index]
                ELSE NoPrior
    /\ store' = Renamed(store)
    /\ store0' = store'

ExtractSitemapEntries ==
    /\ pc = "extract"
    /\ UNCHANGED slack_vars
    /\ sitemap_entries' = ExtractedEntries(sitemap)
    /\ io' = Append(io, "sitemap_load")
    /\ pc' = "filter"
    /\ UNCHANGED <<error, sitemap, has_config, batch_size, documents_count,
                   store, store0, metadata_list, delete_ids, to_index, processed,
                   fetch, outcome, same_after_ok, prior, total_count>>

Raise(exception) ==
    /\ pc' = "error"
    /\ error' = exception

FilterSitemapEntries ==
    /\ pc = "filter"
    /\ UNCHANGED slack_vars
    /\ IF ~has_config
       THEN /\ Raise("ValueError")
            /\ UNCHANGED <<sitemap_entries, store, metadata_list, delete_ids, to_index,
                           fetch, io, total_count>>
       ELSE \E fetch_ok \in BOOLEAN :
            /\ fetch' = IF fetch_ok THEN "ok" ELSE "failed"
            \* the manager reads the count when constructed; delete_by_ids does not
            \* change vsm.total_count
            /\ total_count' = TotalCount(store)
            /\ IF RetrieveRaises(fetch_ok)
               THEN /\ Raise("RuntimeError")
                    /\ io' = io \o <<"count", "similarity_search">>
                    /\ UNCHANGED <<sitemap_entries, store, metadata_list, delete_ids,
                                   to_index>>
               ELSE \E results \in (IF fetch_ok
                                    THEN SimilaritySearch(store, SearchK(TotalCount(store)))
                                    ELSE {{}}) :
                    \E first \in FirstMatches(DbEntries(results)) :
                        /\ metadata_list' = results
                        /\ delete_ids' = DeleteIds(sitemap_entries, first, results)
                        /\ store' = StoreAfterFilter(store, delete_ids')
                        /\ to_index' = NewEntries(sitemap_entries, first)
                        /\ sitemap_entries' = to_index'
                        /\ io' = io \o <<"count", "similarity_search", "delete_by_ids">>
                        /\ pc' = "create"
                        /\ error' = "none"
    /\ UNCHANGED <<sitemap, has_config, batch_size, documents_count, store0,
                   processed, outcome, same_after_ok, prior>>

CreateDocuments ==
    /\ pc = "create"
    /\ UNCHANGED slack_vars
    /\ IF ~has_config
       THEN /\ Raise("ValueError")
            /\ UNCHANGED <<sitemap_entries, documents_count, store, processed, outcome,
                           io, total_count>>
       ELSE IF NothingToProcess(sitemap_entries)
       THEN /\ documents_count' = 0
            /\ pc' = "check"
            /\ UNCHANGED <<error, sitemap_entries, store, processed, outcome, io,
                           total_count>>
       ELSE LET batch == Batch(sitemap_entries, batch_size)
                used == {r.id : r \in store \cup metadata_list}
            IN  \E result \in {"ok", "LoadError", "AddError"} :
                /\ outcome' = result
                /\ IF CreateRaises(result)
                   THEN /\ Raise(result)
                        /\ io' = io \o (IF result = "LoadError"
                                         THEN <<"count", "load_documents">>
                                         ELSE <<"count", "load_documents",
                                                "add_documents">>)
                        /\ total_count' = TotalCount(store)
                        /\ UNCHANGED <<sitemap_entries, documents_count, store,
                                       processed>>
                   ELSE \E counts \in [1..Len(batch) -> 0..MaxChunks] :
                        LET docs == ProcessedDocuments(batch, counts, used)
                        IN  /\ store' = AddDocuments(store, docs)
                            /\ documents_count' =
                                   DocumentsCount(documents_count, Cardinality(docs))
                            /\ sitemap_entries' = Rest(sitemap_entries, batch_size)
                            /\ processed' = Append(processed, batch)
                            /\ io' = io \o <<"count", "load_documents",
                                             "add_documents">>
                            /\ total_count' = TotalCountAfterAdd(TotalCount(store),
                                                                 Cardinality(docs))
                            /\ pc' = "check"
                            /\ UNCHANGED error
    /\ UNCHANGED <<sitemap, has_config, batch_size, store0, metadata_list,
                   delete_ids, to_index, fetch, same_after_ok, prior>>

CheckNextBatch ==
    /\ pc = "check"
    /\ UNCHANGED slack_vars
    /\ pc' = NextBatchTarget(sitemap_entries)
    /\ UNCHANGED <<error, sitemap, has_config, batch_size, sitemap_entries,
                   documents_count, store, store0, metadata_list, delete_ids,
                   to_index, processed, fetch, outcome, same_after_ok, prior, io,
                   total_count>>

\* graph.ainvoke has returned or raised and the caller moves on: the LoaderState
\* of the invocation is gone, the store stays.
Return ==
    /\ pc \in {"end", "error"}
    /\ UNCHANGED slack_vars
    /\ pc' = "idle"
    /\ error' = "none"
    /\ sitemap' = <<>>
    /\ has_config' = TRUE
    /\ batch_size' = 1
    /\ sitemap_entries' = <<>>
    /\ documents_count' = 0
    /\ metadata_list' = {}
    /\ delete_ids' = {}
    /\ to_index' = <<>>
    /\ processed' = <<>>
    /\ fetch' = "none"
    /\ outcome' = "none"
    /\ same_after_ok' = FALSE
    /\ prior' = NoPrior
    /\ io' = <<>>
    /\ total_count' = 0
    /\ store' = Renamed(store)
    /\ store0' = store'

Next ==
    \/ Invoke
    \/ Reinvoke
    \/ ExtractSitemapEntries
    \/ FilterSitemapEntries
    \/ CreateDocuments
    \/ CheckNextBatch
    \/ Return

Spec == Init /\ [][Next]_vars

\* --------------------------------------- filter_sitemap_entries, any index
\* The index as filter_sitemap_entries may find it. The graph is not its only
\* writer and a run of the graph is not a transaction, so the records of one
\* url need not agree on lastmod: any set of (url, lastmod) pairs over
\* ShortUrls, one record each, ids 1..n.
IndexedStores ==
    {Renamed({[id |-> UrlIndex(d[1]) * (MaxLastmod + 1) + d[2],
               source |-> d[1],
               lastmod |-> IsoFormat(d[2])] : d \in pairs})
       : pairs \in SUBSET (ShortUrls \X (1..MaxLastmod))}

\* One invocation with a config on such an index, up to the return of
\* filter_sitemap_entries.
FilterInit ==
    /\ pc = "extract"
    /\ error = "none"
    /\ sitemap \in RawSitemaps
    /\ has_config = TRUE
    /\ batch_size = 1
    /\ sitemap_entries = <<>>
    /\ documents_count = 0
    /\ store \in IndexedStores
    /\ store0 = store
    /\ metadata_list = {}
    /\ delete_ids = {}
    /\ to_index = <<>>
    /\ processed = <<>>
    /\ fetch = "none"
    /\ outcome = "none"
    /\ same_after_ok = FALSE
    /\ prior = NoPrior
    /\ io = <<>>
    /\ total_count = 0
    /\ slack_pc = "wait"
    /\ event = NoEvent
    /\ calls = <<>>

FilterNext ==
    \/ ExtractSitemapEntries
    \/ FilterSitemapEntries

FilterSpec == FilterInit /\ [][FilterNext]_vars

\* ------------------------------------------------- handle_direct_message
\* Slack delivers a message event and Bolt calls the handler.
Receive ==
    /\ slack_pc = "wait"
    /\ \E e \in Events : event' = e
    /\ calls' = <<>>
    /\ slack_pc' = HandlerEntry
    /\ UNCHANGED loader_vars

Ack ==
    /\ slack_pc = "ack"
    /\ calls' = Append(calls, "ack")
    /\ slack_pc' = "validate"
    /\ UNCHANGED <<loader_vars, event>>

Validate ==
    /\ slack_pc = "validate"
    /\ LET verdict == IsValidEvent(event)
       IN  IF verdict = "ignored"
           THEN /\ calls' = Append(calls, "is_valid_event")
                /\ slack_pc' = "done"
           ELSE IF verdict = "ValueError"
           THEN /\ calls' = calls \o <<"is_valid_event", "say">>
                /\ slack_pc' = "done"
           ELSE /\ calls' = Append(calls, "is_valid_event")
                /\ slack_pc' = "placeholder"
    /\ UNCHANGED <<loader_vars, event>>

\* _send_typing_placeholder: a failure of chat_postMessage becomes a ValueError.
SendTypingPlaceholder ==
    /\ slack_pc = "placeholder"
    /\ \E posted \in BOOLEAN :
           IF posted
           THEN /\ calls' = Append(calls, "placeholder")
                /\ slack_pc' = "generate"
           ELSE /\ calls' = calls \o <<"placeholder_failed", "say">>
                /\ slack_pc' = "done"
    /\ UNCHANGED <<loader_vars, event>>

\* _generate_response: rag_system.get_answer returns results, returns none, or
\* raises.
GenerateResponse ==
    /\ slack_pc = "generate"
    /\ \E answer \in {"results", "none", "raises"} :
           IF answer = "raises"
           THEN /\ calls' = calls \o <<"get_answer_failed", "say">>
                /\ slack_pc' = "done"
           ELSE /\ calls' = Append(calls, "get_answer")
                /\ slack_pc' = "send"
    /\ UNCHANGED <<loader_vars, event>>

\* _send_response: a failure of chat_postMessage becomes a ValueError.
SendResponse ==
    /\ slack_pc = "send"
    /\ \E posted \in BOOLEAN :
           IF posted
           THEN /\ calls' = Append(calls, "response")
                /\ slack_pc' = "done"
           ELSE /\ calls' = calls \o <<"response_failed", "say">>
                /\ slack_pc' = "done"
    /\ UNCHANGED <<loader_vars, event>>

\* The handler has returned.
HandlerReturn ==
    /\ slack_pc = "done"
    /\ slack_pc' = "wait"
    /\ event' = NoEvent
    /\ calls' = <<>>
    /\ UNCHANGED loader_vars

SlackNext ==
    \/ Receive
    \/ Ack
    \/ Validate
    \/ SendTypingPlaceholder
    \/ GenerateResponse
    \/ SendResponse
    \/ HandlerReturn

SlackSpec == Init /\ [][SlackNext]_vars

\* An invocation runs its nodes one after the other until one raises or the
\* graph reaches __end__: a node that is due is run.
FairSpec ==
    /\ Spec
    /\ WF_vars(ExtractSitemapEntries)
    /\ WF_vars(FilterSitemapEntries)
    /\ WF_vars(CreateDocuments)
    /\ WF_vars(CheckNextBatch)

\* ----------------------------------------------------------- observations
\* The sitemap's entries as the graph sees them.
Loaded == SitemapLoad(sitemap)

Lastmod(r) == FromIsoFormat(r.lastmod)

RecordsOf(st, url) == {r \in st : r.source = url}

InSeq(e, seq) == \E i \in 1..Len(seq) : seq[i] = e

\* filter_sitemap_entries has returned in this invocation.
FilterDone ==
    \/ pc \in {"create", "check", "end"}
    \/ pc = "error" /\ outcome \in {"LoadError", "AddError"}

\* The records added to the store by this invocation.
NewRecords == {r \in store : \A x \in store0 : x.id # r.id}

RECURSIVE Flatten(_)
Flatten(batches) ==
    IF batches = <<>> THEN <<>> ELSE Head(batches) \o Flatten(Tail(batches))

CeilDiv(n, d) == (n + d - 1) \div d

\* filter_sitemap_entries has just returned; no batch has been taken yet.
JustFiltered == pc = "create" /\ processed = <<>> /\ documents_count = 0

\* ------------------------------------------------------------------ C1
\* C1 as stated: after filter_sitemap_entries and again at __end__, every
\* record of a sitemap url carries exactly the sitemap's lastmod for that url.
C1_RecordsEqualSitemapLastmod ==
    (JustFiltered \/ pc = "end") =>
        \A i \in 1..Len(Loaded) :
            \A r \in RecordsOf(store, Loaded[i].url) : Lastmod(r) = Loaded[i].lastmod

\* C1 amended: after filter_sitemap_entries has returned and up to __end__, no
\* record of a sitemap url is older than the sitemap's lastmod for that url,
\* and the records of one url all carry one lastmod.
C1_NoStaleNoMixedRecords ==
    FilterDone =>
        /\ \A i \in 1..Len(Loaded) :
               \A r \in RecordsOf(store, Loaded[i].url) : Lastmod(r) >= Loaded[i].lastmod
        /\ \A r1, r2 \in store : r1.source = r2.source => Lastmod(r1) = Lastmod(r2)

\* A run that ended with one url re-indexed after its old records were deleted
\* and another url kept with records newer than the sitemap.
C1_Witness ==
    /\ pc = "end"
    /\ delete_ids # {}
    /\ \E i \in 1..Len(Loaded) : \E r \in store :
           r.source = Loaded[i].url /\ Lastmod(r) > Loaded[i].lastmod
    /\ \E i \in 1..Len(to_index) : RecordsOf(store, to_index[i].url) # {}

\* ------------------------------------------------------------------ C2
\* C2: once filter_sitemap_entries has returned, every sitemap entry whose
\* lastmod is later than the lastmod of the records the store held for its url
\* is in to_index, and the id of every record of that url is among the ids given
\* to delete_by_ids.
C2_StaleReindexedAndDeleted ==
    FilterDone =>
        \A i \in 1..Len(Loaded) :
            LET e == Loaded[i]
                old == RecordsOf(store0, e.url)
            IN  (old # {} /\ \A r \in old : e.lastmod > Lastmod(r)) =>
                    /\ InSeq(e, to_index)
                    /\ \A r \in old : r.id \in delete_ids

\* An updated entry whose url had several records, all handed to delete_by_ids.
C2_Witness ==
    /\ JustFiltered
    /\ \E i \in 1..Len(to_index) :
        LET old == RecordsOf(store0, to_index[i].url)
        IN  /\ Cardinality(old) >= 2
            /\ \A r \in old : to_index[i].lastmod > Lastmod(r) /\ r.id \in delete_ids

\* ------------------------------------------------------------------ C3
\* C3: once filter_sitemap_entries has returned, a sitemap entry whose url had
\* a record with an equal or later lastmod is not in to_index, no id of a record
\* of that url is given to delete_by_ids, and those records are still stored.
C3_UnchangedSkipped ==
    FilterDone =>
        \A i \in 1..Len(Loaded) :
            LET e == Loaded[i]
                old == RecordsOf(store0, e.url)
            IN  (\E r \in old : e.lastmod <= Lastmod(r)) =>
                    /\ ~InSeq(e, to_index)
                    /\ \A r \in old : r.id \notin delete_ids /\ r \in store

\* Two skipped entries: one with records of an equal lastmod, one with records
\* of a later lastmod.
C3_Witness ==
    /\ JustFiltered
    /\ \E i, j \in 1..Len(Loaded) :
        /\ ~InSeq(Loaded[i], to_index) /\ ~InSeq(Loaded[j], to_index)
        /\ \E r \in store0 : r.source = Loaded[i].url /\ Lastmod(r) = Loaded[i].lastmod
        /\ \E r \in store0 : r.source = Loaded[j].url /\ Lastmod(r) > Loaded[j].lastmod

\* ------------------------------------------------------------------ C4
\* C4: once filter_sitemap_entries has returned, every sitemap entry whose url
\* had no record in the store is in to_index, every id given to delete_by_ids is
\* the id of a record the store held (a new entry adds none), and with an empty
\* store to_index is the whole sitemap and no id is deleted.
C4_NewIndexed ==
    FilterDone =>
        /\ \A i \in 1..Len(Loaded) :
               RecordsOf(store0, Loaded[i].url) = {} => InSeq(Loaded[i], to_index)
        /\ \A id \in delete_ids : \E r \in store0 :
               /\ r.id = id
               /\ \E i \in 1..Len(Loaded) : Loaded[i].url = r.source
        /\ store0 = {} => to_index = Loaded /\ delete_ids = {}

\* A new entry returned next to a store that already holds other urls.
C4_Witness ==
    /\ JustFiltered
    /\ store0 # {}
    /\ \E i \in 1..Len(to_index) : RecordsOf(store0, to_index[i].url) = {}

\* ------------------------------------------------------------------ C5
\* C5: an invocation that repeats the sitemap of an invocation that reached
\* __end__ gets an empty to_index and deletes nothing.
C5_SecondRunEmpty ==
    (same_after_ok /\ FilterDone) => to_index = <<>> /\ delete_ids = {}

\* ------------------------------------------------------------------ C6
\* C6: in no state does the store hold, for one url, a record it held when the
\* invocation began next to a chunk the invocation added; chunks are added only
\* after filter_sitemap_entries has returned, and from then on no id given to
\* delete_by_ids is in the store and the records of a url of to_index are only
\* chunks this invocation added, with the entry's lastmod.
C6_DeletedBeforeAdded ==
    LET new == NewRecords
    IN  /\ \A r1 \in store \ new, r2 \in new : r1.source # r2.source
        /\ new # {} => FilterDone
        /\ FilterDone =>
               /\ \A r \in store : r.id \notin delete_ids
               /\ \A i \in 1..Len(to_index) :
                      \A r \in RecordsOf(store, to_index[i].url) :
                          r \in new /\ Lastmod(r) = to_index[i].lastmod

\* An updated url whose old records are gone and whose new chunks are stored.
C6_Witness ==
    /\ pc = "check"
    /\ delete_ids # {}
    /\ \E i \in 1..Len(to_index) :
           /\ RecordsOf(store0, to_index[i].url) # {}
           /\ RecordsOf(store, to_index[i].url) # {}

\* ------------------------------------------------------------------ C7
\* C7: between the batches documents_count is the number of chunks the
\* invocation has added so far, the batches taken so far are
\* ceil(taken entries / batch_size), and at __end__ ceil(N / batch_size)
\* batches have been taken for the N entries of to_index.
C7_BatchesAndCount ==
    FilterDone =>
        /\ documents_count = Cardinality(NewRecords)
        /\ Len(processed) = CeilDiv(Len(to_index) - Len(sitemap_entries), batch_size)
        /\ pc = "end" => Len(processed) = CeilDiv(Len(to_index), batch_size)

\* Three entries drained with batch size 2 in two batches, both adding chunks.
C7_Witness ==
    /\ pc = "end"
    /\ Len(to_index) = 3
    /\ batch_size = 2
    /\ Len(processed) = 2
    /\ \A i \in 1..3 : RecordsOf(NewRecords, to_index[i].url) # {}
    /\ documents_count >= 4

\* ------------------------------------------------------------------ C8
\* C8: to_index keeps the sitemap's order, the batches taken so far followed by
\* the pending queue are to_index, and the k-th batch holds
\* min(batch_size, entries left) entries.
C8_Fifo ==
    FilterDone =>
        /\ to_index = SelectSeq(Loaded, LAMBDA e : InSeq(e, to_index))
        /\ Flatten(processed) \o sitemap_entries = to_index
        /\ \A k \in 1..Len(processed) :
               Len(processed[k]) = Min(batch_size, Len(to_index) - (k - 1) * batch_size)

\* batch_size 2 and a queue of three entries: the first two, then the third.
C8_Witness ==
    /\ pc = "end"
    /\ batch_size = 2
    /\ Len(to_index) = 3
    /\ processed = <<SubSeq(to_index, 1, 2), SubSeq(to_index, 3, 3)>>

\* ------------------------------------------------------------------ C9
\* C9: when similarity_search has failed the invocation is in error with a
\* RuntimeError, the store is as the invocation found it, nothing was given to
\* delete_by_ids, no to_index was returned and no batch was taken.
C9_FetchFailureCommitsNothing ==
    fetch = "failed" =>
        /\ pc = "error" /\ error = "RuntimeError"
        /\ store = store0
        /\ delete_ids = {} /\ to_index = <<>>
        /\ sitemap_entries = Loaded
        /\ processed = <<>> /\ documents_count = 0

\* The fetch failed over a store that holds outdated records of a sitemap url.
C9_Witness ==
    /\ fetch = "failed"
    /\ pc = "error"
    /\ \E i \in 1..Len(Loaded) : \E r \in store :
           r.source = Loaded[i].url /\ Lastmod(r) < Loaded[i].lastmod

\* ------------------------------------------------------------------ C10
\* C10: a create_documents step whose load, split or add fails ends the
\* invocation with that error and changes neither the store, nor the running
\* count, nor the queue, nor the batches taken.
C10_FailedBatchCommitsNothing ==
    [][(pc = "create" /\ outcome' \in {"LoadError", "AddError"}) =>
          /\ pc' = "error" /\ error' = outcome'
          /\ store' = store
          /\ documents_count' = documents_count
          /\ sitemap_entries' = sitemap_entries
          /\ processed' = processed]_vars

\* A batch failed after an earlier batch of the invocation had added chunks.
C10_Witness ==
    /\ pc = "error"
    /\ outcome \in {"LoadError", "AddError"}
    /\ processed # <<>>
    /\ NewRecords # {}
    /\ sitemap_entries # <<>>

\* ------------------------------------------------------------------ C11
\* C11 as stated: when an invocation that repeats the sitemap of one that failed
\* in a batch reaches __end__, every sitemap url has records in the store and
\* all of them carry the sitemap's lastmod for that url.
C11_RerunIndexesEverySitemapUrl ==
    (prior.aborted /\ pc = "end") =>
        \A i \in 1..Len(Loaded) :
            /\ RecordsOf(store, Loaded[i].url) # {}
            /\ \A r \in RecordsOf(store, Loaded[i].url) :
                   Lastmod(r) = Loaded[i].lastmod

\* C11 amended: an invocation that repeats the sitemap of one that failed in a
\* batch deletes nothing and has to index exactly the entries of the failed
\* invocation's to_index whose url has no record yet, in their order; no record
\* the store held is lost, the urls outside the failed invocation's to_index
\* keep exactly their records, and at __end__ every record of a url of that
\* to_index carries the entry's lastmod.
C11_RerunCompletesAbortedRun ==
    (prior.aborted /\ FilterDone) =>
        /\ delete_ids = {}
        /\ to_index = SelectSeq(prior.to_index,
                                LAMBDA e : RecordsOf(store0, e.url) = {})
        /\ store0 \subseteq store
        /\ \A u \in Urls :
               (\A i \in 1..Len(prior.to_index) : prior.to_index[i].url # u) =>
                   RecordsOf(store, u) = RecordsOf(store0, u)
        /\ pc = "end" =>
               \A i \in 1..Len(prior.to_index) :
                   \A r \in RecordsOf(store, prior.to_index[i].url) :
                       Lastmod(r) = prior.to_index[i].lastmod

\* The failed invocation had indexed one url before it failed; the repeated one
\* indexed another and reached __end__.
C11_Witness ==
    /\ prior.aborted
    /\ pc = "end"
    /\ \E i \in 1..Len(prior.to_index) :
           /\ RecordsOf(store0, prior.to_index[i].url) # {}
           /\ ~InSeq(prior.to_index[i], to_index)
    /\ \E i \in 1..Len(to_index) : RecordsOf(NewRecords, to_index[i].url) # {}

\* ------------------------------------------------------------------ C12
\* C12: when the invocation ends with the error raised for a missing
\* configuration, no call was made before it: no sitemap load, no read of the
\* store, no delete and no add.
C12_NoConfigNoIO ==
    (pc = "error" /\ error = "ValueError") => io = <<>>

\* ------------------------------------------------------------------ C13
\* No two entries of the sequence have the same url.
NoUrlTwice(seq) ==
    \A i, j \in 1..Len(seq) : seq[i].url = seq[j].url => i = j

\* e is the last entry of the raw sitemap with its url.
IsLastOccurrence(e, raw) ==
    \E j \in 1..Len(raw) :
        /\ raw[j] = e
        /\ \A k \in (j + 1)..Len(raw) : raw[k].url # e.url

C14_SnapshotReadOnce ==
    /\ \A i, j \in 1..Len(io) :
           (io[i] = "similarity_search" /\ io[j] = "similarity_search") => i = j
    /\ \A i, j \in 1..Len(io) :
           (io[i] = "similarity_search"
               /\ io[j] \in {"delete_by_ids", "add_documents"}) => i < j
    /\ FilterDone =>
           /\ \E i \in 1..Len(io) : io[i] = "similarity_search"
           /\ metadata_list \subseteq store0

\* Records were read, some deleted, and chunks added in two batches.
C14_Witness ==
    /\ pc = "end"
    /\ metadata_list # {}
    /\ delete_ids # {}
    /\ Len(processed) >= 2
    /\ Cardinality({i \in 1..Len(io) : io[i] = "add_documents"}) >= 2

\* ------------------------------------------------------------------ C15
\* C15: once create_documents is due the invocation reaches __end__ or fails;
\* at __end__ the queue is empty; and every create_documents step that takes a
\* batch leaves the queue strictly shorter.
C15_BatchLoopTerminates ==
    /\ (pc = "create") ~> (pc \in {"end", "error"})
    /\ [](pc = "end" => sitemap_entries = <<>>)
    /\ [][(pc = "create" /\ pc' = "check" /\ sitemap_entries # <<>>) =>
             Len(sitemap_entries') < Len(sitemap_entries)]_vars

\* A queue of three entries drained one entry at a time.
C15_Witness ==
    /\ pc = "end"
    /\ batch_size = 1
    /\ Len(to_index) = 3
    /\ Len(processed) = 3
    /\ sitemap_entries = <<>>

\* ------------------------------------------------------------------ C16
\* C16: right after filter_sitemap_entries has returned, and after every batch
\* create_documents has added, vsm.total_count is the number of records the
\* store holds.
C16_TotalCountMatchesStore ==
    (JustFiltered \/ (pc = "check" /\ outcome = "ok")) =>
        total_count = Cardinality(store)

\* ------------------------------------------------------------------ C17
\* C17: when filter_sitemap_entries has returned an empty to_index, the
\* invocation does not fail, takes no batch, makes no call to the loader or to
\* add_documents, leaves the store as it found it and reports documents_count 0.
C17_EmptyQueueNoDraining ==
    (FilterDone /\ to_index = <<>>) =>
        /\ pc \in {"create", "check", "end"}
        /\ processed = <<>>
        /\ \A i \in 1..Len(io) : io[i] \notin {"load_documents", "add_documents"}
        /\ store = store0
        /\ documents_count = 0

\* Every entry of a non-empty sitemap was skipped and the graph reached __end__.
C17_Witness ==
    /\ pc = "end"
    /\ to_index = <<>>
    /\ Loaded # <<>>
    /\ store # {}
    /\ documents_count = 0

\* ------------------------------------------------------------------ C18
\* C18: whatever the handler has called for an event, ack came first and only
\* once; the event is validated, the placeholder posted, the answer generated
\* and the response sent only after ack, and right after ack none of them has
\* happened yet.
C18_AckFirst ==
    /\ calls # <<>> => calls[1] = "ack"
    /\ \A i \in 2..Len(calls) : calls[i] # "ack"
    /\ slack_pc \in {"validate", "placeholder", "generate", "send", "done"} =>
           (calls # <<>> /\ calls[1] = "ack")
    /\ slack_pc = "validate" => calls = <<"ack">>

\* A direct message was acknowledged, validated, answered and the answer sent.
C18_Witness ==
    /\ slack_pc = "done"
    /\ calls = <<"ack", "is_valid_event", "placeholder", "get_answer", "response">>

\* ------------------------------------------------------------------ C19
\* C19: what filter_sitemap_entries returned and deleted is what it returns and
\* deletes for every order in which db_entries can be iterated, also when the
\* records of one url carry different lastmods.
C19_OrderIndependent ==
    pc = "create" =>
        \A first \in FirstMatches(DbEntries(metadata_list)) :
            /\ NewEntries(Loaded, first) = to_index
            /\ DeleteIds(Loaded, first, metadata_list) = delete_ids

\* ------------------------------------------------------------------ C20
\* The records st holds for the entry's url are all older than the entry.
StaleIn(st, e) ==
    /\ RecordsOf(st, e.url) # {}
    /\ \A r \in RecordsOf(st, e.url) : e.lastmod > Lastmod(r)

\* C20: a record the store held when the invocation began is missing from the
\* store only if the sitemap has an entry for its url with a later lastmod, and
\* only ids of such records are given to delete_by_ids; the records of a url
\* that is not in the sitemap, or whose entry is not later than they are, stay
\* in the store through filter_sitemap_entries and every create_documents.
C20_Frame ==
    LET loaded == Loaded
        stale == {i \in 1..Len(loaded) : StaleIn(store0, loaded[i])}
    IN  /\ \A r \in store0 \ store :
               \E i \in stale : loaded[i].url = r.source
        /\ \A id \in delete_ids :
               \E r \in store0, i \in stale :
                   r.id = id /\ loaded[i].url = r.source
        /\ \A r \in store0 :
               (\A i \in 1..Len(loaded) :
                    loaded[i].url = r.source => loaded[i].lastmod <= Lastmod(r)) =>
                   r \in store

\* At __end__: one url re-indexed after its records were deleted, the records
\* of a skipped url and of a url outside the sitemap still stored.
C20_Witness ==
    /\ pc = "end"
    /\ delete_ids # {}
    /\ NewRecords # {}
    /\ \E r \in store0 \cap store :
           \E i \in 1..Len(Loaded) : Loaded[i].url = r.source
    /\ \E r \in store0 \cap store :
           \A i \in 1..Len(Loaded) : Loaded[i].url # r.source

\* ------------------------------------------------------------------ C21
\* The places (batch, position) at which the batches taken hold the entry.
PlacesOf(e, batches) ==
    {p \in (1..Len(batches)) \X (1..Len(to_index)) :
        p[2] <= Len(batches[p[1]]) /\ batches[p[1]][p[2]] = e}

\* C21: once filter_sitemap_entries has returned, every entry of to_index is
\* either still pending or in exactly one batch, at one place; every batch taken
\* was loaded once and holds at least one entry; the chunks added are chunks of
\* entries of the batches; and at __end__ nothing is pending and the batches,
\* one after the other, are to_index.
C21_QueueConservation ==
    FilterDone =>
        LET done == Flatten(processed)
        IN  /\ \A i \in 1..Len(to_index) :
                   LET places == Cardinality(PlacesOf(to_index[i], processed))
                   IN  IF InSeq(to_index[i], sitemap_entries)
                       THEN places = 0
                       ELSE places = 1
            /\ \A k \in 1..Len(processed) : processed[k] # <<>>
            /\ \A i \in 1..Len(done) : InSeq(done[i], to_index)
            /\ Cardinality({i \in 1..Len(io) : io[i] = "add_documents"})
                   = Len(processed) + (IF outcome = "AddError" THEN 1 ELSE 0)
            /\ \A r \in NewRecords :
                   \E i \in 1..Len(done) :
                       done[i].url = r.source /\ done[i].lastmod = Lastmod(r)
            /\ pc = "end" => (sitemap_entries = <<>> /\ done = to_index)

\* Three entries indexed in three batches of one, each adding chunks.
C21_Witness ==
    /\ pc = "end"
    /\ batch_size = 1
    /\ Len(to_index) = 3
    /\ Len(processed) = 3
    /\ \A i \in 1..3 :
           /\ processed[i] = <<to_index[i]>>
           /\ RecordsOf(NewRecords, to_index[i].url) # {}

\* ------------------------------------------------------------------ C22
\* What the handler posts, or tries to post, to the channel.
Posts == {"placeholder", "placeholder_failed", "response", "response_failed", "say"}

\* C22: for an event that carries a bot_id, or whose channel_type is neither
\* "im" nor "group", the handler posts nothing: no placeholder, no response and
\* no error text; it acknowledges, validates and returns.
C22_NoReplyToBotOrChannel ==
    (event.bot_id # "none" \/ event.channel_type \notin {"im", "group"}) =>
        /\ \A i \in 1..Len(calls) : calls[i] \notin Posts
        /\ slack_pc \notin {"placeholder", "generate", "send"}
        /\ slack_pc = "done" => calls = <<"ack", "is_valid_event">>

\* A direct message of a bot with an empty text was handled without a post.
C22_Witness ==
    /\ slack_pc = "done"
    /\ event.bot_id # "none"
    /\ event.channel_type = "im"
    /\ Strip(event.text) = ""
    /\ calls = <<"ack", "is_valid_event">>

====
